---- MODULE Spec2Model ----
(***************************************************************************)
(* A model of toy-linker (src/src/main.rs): the pipeline of `run`          *)
(*   process_object_file* ; allocate ; write ; relocate ; output stager    *)
(* over small ELF relocatable objects.  An object file is the parsed view  *)
(* goblin hands to the linker: its byte buffer, its section headers, its   *)
(* symbols (names already resolved through the string table) and its      *)
(* relocation sections.  Indices (file_idx, shdr_idx, sym_idx) are 0-based *)
(* as in the program; TLA+ sequences are 1-based, hence the "+ 1".         *)
(* usize/u64 arithmetic is modelled in the integers: all offsets of the    *)
(* bounded inputs stay far below 2^31.                                     *)
(***************************************************************************)
EXTENDS Integers, Sequences, FiniteSets, TLC

\* ---------------------------------------------------------------- bounds
\* Number of input objects on the command line (opts.input).
MaxFiles == 2

\* ------------------------------------------------------ program constants
PAGE_SIZE == 4096
\* Header::size(ctx) and ProgramHeader::size(ctx) for a 64-bit container.
ELF_HEADER_SIZE == 64
PROGRAM_HEADER_SIZE == 56
num_prog_headers == 3

SHT_NULL == 0
SHT_PROGBITS == 1
SHT_SYMTAB == 2
SHT_STRTAB == 3
SHT_RELA == 4
SHT_NOTE == 7
SHT_NOBITS == 8
SHT_REL == 9

SHF_WRITE == 1
SHF_ALLOC == 2
SHF_EXECINSTR == 4
SHF_MERGE == 16
SHF_STRINGS == 32
SHF_INFO_LINK == 64
SHF_TLS == 1024

SHN_UNDEF == 0
STB_LOCAL == 0
STB_GLOBAL == 1
STB_WEAK == 2
STT_NOTYPE == 0

R_X86_64_64 == 1
R_X86_64_PC32 == 2
R_X86_64_PLT32 == 4

PT_LOAD == 1
PF_X == 1
PF_W == 2
PF_R == 4
ET_EXEC == 2
EM_X86_64 == 62

I32_MAX == 2147483647
I32_MIN == (-2147483647) - 1

\* ------------------------------------------------------- bit operations
RECURSIVE BitAnd(_, _)
BitAnd(x, y) ==
  IF x = 0 \/ y = 0 THEN 0
  ELSE (x % 2) * (y % 2) + 2 * BitAnd(x \div 2, y \div 2)

BitOr(x, y) == x + y - BitAnd(x, y)

\* x & !m on u64
BitAndNot(x, m) == x - BitAnd(x, m)

\* goblin::elf::sym::st_bind
st_bind(st_info) == st_info \div 16

\* st_info of a symbol of binding b and type t
st_info_of(b, t) == b * 16 + t

Range(s) == {s[i] : i \in DOMAIN s}

\* Updates (or extends) the finite map m at key k: HashMap::insert.
MapInsert(m, k, v) == [x \in DOMAIN m \cup {k} |-> IF x = k THEN v ELSE m[x]]

EmptyMap == [x \in {} |-> 0]

\* ---------------------------------------------------------- input objects
\* A section header as goblin parses it (SectionHeader).
Shdr(t, fl, off, sz, al, info) ==
  [sh_type |-> t, sh_flags |-> fl, sh_offset |-> off, sh_size |-> sz,
   sh_addralign |-> al, sh_info |-> info]

\* A symbol (goblin::elf::Sym); st_name stands for the string the symbol's
\* st_name index selects in the file's string table.
Sym(name, bind, shndx, value) ==
  [st_name |-> name, st_info |-> st_info_of(bind, STT_NOTYPE),
   st_shndx |-> shndx, st_value |-> value]

\* A relocation record (goblin::elf::Reloc) of a RELA section.
Reloc(off, ty, sym, addend) ==
  [r_offset |-> off, r_type |-> ty, r_sym |-> sym, r_addend |-> addend]

\* Section 0 and symbol 0 of every ELF object.
NullShdr == Shdr(SHT_NULL, 0, 0, 0, 0, 0)
NullSym == Sym("", STB_LOCAL, SHN_UNDEF, 0)

\* The first bytes of an object's buffer that sections select as payload.
Payload == <<72, 137, 229, 232, 1, 2, 3, 4, 195, 104, 105, 10>>

\* The parsed view of one input buffer: Elf::parse(file) of
\* process_object_file, together with the buffer itself.
ObjectFile(secs, syms, relocs) ==
  [buf |-> Payload, section_headers |-> <<NullShdr>> \o secs,
   syms |-> <<NullSym>> \o syms, shdr_relocs |-> relocs]

FlagsCode == BitOr(SHF_ALLOC, SHF_EXECINSTR)
FlagsData == BitOr(SHF_ALLOC, SHF_WRITE)
FlagsRo == SHF_ALLOC
Kinds == {FlagsCode, FlagsData, FlagsRo}

RECURSIVE SumSet(_)
SumSet(S) == IF S = {} THEN 0 ELSE LET x == CHOOSE y \in S : TRUE IN x + SumSet(S \ {x})

\* Corpus "classify": one section per object, of every type the classifier
\* names and two it does not, PROGBITS with every combination of the five
\* flags the classifier tests and with a flag it does not know.
ClassifyFlags ==
  {SumSet(F) : F \in SUBSET {SHF_WRITE, SHF_ALLOC, SHF_EXECINSTR, SHF_MERGE, SHF_STRINGS}}
     \cup {BitOr(SHF_ALLOC, SHF_TLS), BitOr(BitOr(SHF_ALLOC, SHF_MERGE), SHF_TLS)}

ClassifyFiles ==
  {ObjectFile(<<Shdr(SHT_PROGBITS, fl, 0, 5, 1, 0)>>, <<>>, <<>>) : fl \in ClassifyFlags}
  \cup
  {ObjectFile(<<Shdr(t, fl, 0, 5, 1, 0)>>, <<>>, <<>>) :
      t \in {SHT_SYMTAB, SHT_STRTAB, SHT_RELA, SHT_NOBITS, SHT_NOTE, SHT_REL},
      fl \in {0, FlagsData}}

\* Corpus "layout": sections of the three kinds with sizes and alignments
\* that exercise the allocator; the two-section objects define _start in
\* their first section.
LayoutSizes == {0, 5}
LayoutAligns == {0, 1, 3, 16, 8192}

LayoutFiles ==
  {ObjectFile(<<Shdr(SHT_PROGBITS, fl, 0, sz, al, 0)>>, <<>>, <<>>) :
      fl \in Kinds, sz \in LayoutSizes, al \in LayoutAligns}
  \cup
  {ObjectFile(<<Shdr(SHT_PROGBITS, f1, 0, 5, 1, 0), Shdr(SHT_PROGBITS, f2, 5, 3, 16, 0)>>,
              <<Sym("_start", STB_GLOBAL, 1, 0)>>, <<>>) :
      f1 \in Kinds, f2 \in Kinds}

\* Corpus "link": objects with .text (section 1), .data (section 2) and
\* .rela.text (section 3), symbols and relocation records.
TextShdr == Shdr(SHT_PROGBITS, FlagsCode, 0, 8, 16, 0)
DataShdr == Shdr(SHT_PROGBITS, FlagsData, 8, 4, 4, 0)
\* .rela.text of n records of 24 bytes, sh_info naming section 1; the bytes
\* of tables and records, which only the parser reads, are not in buf.
RelaShdr(n) == Shdr(SHT_RELA, SHF_INFO_LINK, 12, 24 * n, 8, 1)
LinkSecs(n) == <<TextShdr, DataShdr, RelaShdr(n)>>

\* Symbols 1..3 of a main object: local msg in .data, _start, undefined f.
StartChoices ==
  {Sym("_start", STB_LOCAL, 1, 0),       \* no global _start
   Sym("_start", STB_GLOBAL, 1, 0),
   Sym("_start", STB_GLOBAL, 1, 8),      \* one past the end of .text
   Sym("_start", STB_GLOBAL, 2, 0)}      \* defined in .data

MainSyms(start) ==
  <<Sym("msg", STB_LOCAL, 2, 0), start, Sym("f", STB_GLOBAL, SHN_UNDEF, 0)>>

RelocChoices ==
  {<<>>,
   <<Reloc(4, R_X86_64_PLT32, 3, -4)>>,
   <<Reloc(0, R_X86_64_PC32, 1, -4)>>,
   <<Reloc(0, R_X86_64_PC32, 1, 2), Reloc(2, R_X86_64_PLT32, 3, -4)>>,
   <<Reloc(0, R_X86_64_64, 1, 0)>>,
   <<Reloc(0, R_X86_64_PC32, 1, I32_MAX)>>,
   <<Reloc(65536, R_X86_64_PC32, 1, -4)>>}

LibSyms ==
  {<<Sym("f", STB_GLOBAL, 1, 0)>>,
   <<Sym("f", STB_GLOBAL, 1, 0), Sym("_start", STB_GLOBAL, 1, 4)>>,
   <<Sym("f", STB_GLOBAL, 1, 0), Sym("f", STB_GLOBAL, 2, 0)>>,
   <<Sym("f", STB_WEAK, 1, 0)>>}

RelaOf(recs) == <<[shdr |-> 3, relocations |-> recs]>>

LinkFiles ==
  {ObjectFile(LinkSecs(Len(rs)), MainSyms(st), RelaOf(rs)) : st \in StartChoices, rs \in RelocChoices}
  \cup
  {ObjectFile(LinkSecs(0), ls, RelaOf(<<>>)) : ls \in LibSyms}

Corpora == {"classify", "layout", "link"}

CorpusFiles(c) ==
  CASE c = "classify" -> ClassifyFiles
    [] c = "layout" -> LayoutFiles
    [] c = "link" -> LinkFiles

\* ------------------------------------------------------------------ state
VARIABLES
  corpus,            \* the family of objects this run links
  pc,                \* position of `run`
  failure,           \* why the pipeline aborted ("none" while it has not)
  file_buffers,      \* Input::file_buffers (with each buffer's parsed view)
  code_sections,     \* Input::code_sections
  data_sections,     \* Input::data_sections
  ro_data_sections,  \* Input::ro_data_sections
  reloc_sections,    \* Input::reloc_sections
  symtab,            \* Input::symtab, later Output::symtab
  output,            \* the Output that allocate returns
  output_vec,        \* the image: output_vec of run
  exe_file           \* the output file of the stager

vars == <<corpus, pc, failure, file_buffers, code_sections, data_sections,
          ro_data_sections, reloc_sections, symtab, output, output_vec, exe_file>>

\* SymbolTable::new
SymbolTableNew == [by_file |-> EmptyMap, globals |-> EmptyMap]

\* The image before anything is written: no header, every byte zero (bytes
\* maps the offsets that hold a written byte; the others read 0).
NoHeader == [e_type |-> 0, e_machine |-> 0, e_entry |-> 0, e_phoff |-> 0, e_phnum |-> 0]
EmptyImage == [len |-> 0, ehdr |-> NoHeader, phdrs |-> <<>>, bytes |-> EmptyMap]

NoOutput ==
  [code_sections |-> <<>>, data_sections |-> <<>>, ro_data_sections |-> <<>>,
   section_offsets |-> EmptyMap, total_size |-> 0]

NoFile == [created |-> FALSE, contents |-> EmptyImage, mode |-> 0]

\* Input::new, and `run` before its first statement.
Init ==
  /\ corpus \in Corpora
  /\ pc = "ingest"
  /\ failure = "none"
  /\ file_buffers = <<>>
  /\ code_sections = <<>>
  /\ data_sections = <<>>
  /\ ro_data_sections = <<>>
  /\ reloc_sections = <<>>
  /\ symtab = SymbolTableNew
  /\ output = NoOutput
  /\ output_vec = EmptyImage
  /\ exe_file = NoFile

\* ------------------------------------------------------ symbol index (C)
\* The loop of SymbolTable::insert over symtab.iter().enumerate(), from the
\* symbol of index i - 1 on.
\* Mutant of IsDefinedGlobal: the binding is not tested.
IsDefinedGlobal_AnyBinding(sym) == sym.st_shndx # SHN_UNDEF

\* The test of SymbolTable::insert: a defined global symbol.
IsDefinedGlobal(sym) == st_bind(sym.st_info) = STB_GLOBAL /\ sym.st_shndx # SHN_UNDEF

RECURSIVE InsertGlobals(_, _, _, _)
InsertGlobals(globals, file_idx, syms, i) ==
  IF i > Len(syms) THEN globals
  ELSE LET sym == syms[i]
           g == IF IsDefinedGlobal(sym)
                THEN MapInsert(globals, sym.st_name, <<file_idx, i - 1>>)
                ELSE globals
       IN InsertGlobals(g, file_idx, syms, i + 1)

\* SymbolTable::insert
SymbolTableInsert(st, file_idx, syms) ==
  [by_file |-> MapInsert(st.by_file, file_idx, syms),
   globals |-> InsertGlobals(st.globals, file_idx, syms, 1)]

\* SymbolTable::get; the unwraps panic on a file or index that is not there.
SymbolTableHas(st, file_idx, sym_idx) ==
  file_idx \in DOMAIN st.by_file /\ sym_idx + 1 \in DOMAIN st.by_file[file_idx]

SymbolTableGet(st, file_idx, sym_idx) == st.by_file[file_idx][sym_idx + 1]

\* -------------------------------------------------- input aggregator (B)
\* The relocation sections of one object: the loop over elf.shdr_relocs.
RelocSectionsOf(file_idx, elf) ==
  [k \in DOMAIN elf.shdr_relocs |->
     [applies_to_file |-> file_idx,
      applies_to_sec |-> elf.section_headers[elf.shdr_relocs[k].shdr + 1].sh_info,
      relocations |-> elf.shdr_relocs[k].relocations]]

InputSection(file_idx, idx, sec) ==
  [file_idx |-> file_idx, shdr_idx |-> idx, section |-> sec]

\* Mutant of Classify: the read-only test does not mask MERGE and STRINGS.
Classify_NoMask(sec) ==
  IF sec.sh_type = SHT_PROGBITS THEN
    IF sec.sh_flags = BitOr(SHF_ALLOC, SHF_EXECINSTR) THEN "code"
    ELSE IF sec.sh_flags = BitOr(SHF_ALLOC, SHF_WRITE) THEN "data"
    ELSE IF sec.sh_flags = SHF_ALLOC THEN "ro_data"
    ELSE IF BitAnd(sec.sh_flags, SHF_ALLOC) = SHF_ALLOC THEN "unknown_flags"
    ELSE "none"
  ELSE IF sec.sh_type \in {SHT_NULL, SHT_NOBITS, SHT_RELA, SHT_SYMTAB, SHT_STRTAB} THEN "none"
  ELSE "unknown_type"

\* The bucket a section header goes to: the match of process_object_file.
\* "none" is the ignored section, "unknown_flags" and "unknown_type" are
\* the two panics.
Classify(sec) ==
  IF sec.sh_type = SHT_PROGBITS THEN
    IF sec.sh_flags = BitOr(SHF_ALLOC, SHF_EXECINSTR) THEN "code"
    ELSE IF sec.sh_flags = BitOr(SHF_ALLOC, SHF_WRITE) THEN "data"
    ELSE IF BitAndNot(sec.sh_flags, BitOr(SHF_MERGE, SHF_STRINGS)) = SHF_ALLOC THEN "ro_data"
    ELSE IF BitAnd(sec.sh_flags, SHF_ALLOC) = SHF_ALLOC THEN "unknown_flags"
    ELSE "none"
  ELSE IF sec.sh_type \in {SHT_NULL, SHT_NOBITS, SHT_RELA, SHT_SYMTAB, SHT_STRTAB} THEN "none"
  ELSE "unknown_type"

\* The loop over elf.section_headers from index i - 1 on; acc holds the
\* three buckets so far.  The loop stops at the first panic.
RECURSIVE ClassifyLoop(_, _, _, _)
ClassifyLoop(file_idx, shdrs, i, acc) ==
  IF i > Len(shdrs) THEN acc
  ELSE LET sec == shdrs[i]
           c == Classify(sec)
           input_sec == InputSection(file_idx, i - 1, sec)
       IN IF c \in {"unknown_flags", "unknown_type"} THEN [acc EXCEPT !.panic = c]
          ELSE ClassifyLoop(file_idx, shdrs, i + 1,
                 CASE c = "code" -> [acc EXCEPT !.code = Append(@, input_sec)]
                   [] c = "data" -> [acc EXCEPT !.data = Append(@, input_sec)]
                   [] c = "ro_data" -> [acc EXCEPT !.ro_data = Append(@, input_sec)]
                   [] OTHER -> acc)

\* Input::process_object_file on the next buffer of opts.input (the loop of
\* run over &buffers).  A panic leaves the state the program had reached.
ProcessObjectFile(elf) ==
  /\ pc = "ingest"
  /\ Len(file_buffers) < MaxFiles
  /\ LET file_idx == Len(file_buffers)
         r == ClassifyLoop(file_idx, elf.section_headers, 1,
                [code |-> code_sections, data |-> data_sections,
                 ro_data |-> ro_data_sections, panic |-> "none"])
     IN /\ file_buffers' = Append(file_buffers, elf)
        /\ reloc_sections' = reloc_sections \o RelocSectionsOf(file_idx, elf)
        /\ symtab' = SymbolTableInsert(symtab, file_idx, elf.syms)
        /\ code_sections' = r.code
        /\ data_sections' = r.data
        /\ ro_data_sections' = r.ro_data
        /\ failure' = r.panic
        /\ pc' = IF r.panic = "none" THEN "ingest" ELSE "failed"
  /\ UNCHANGED <<corpus, output, output_vec, exe_file>>

\* --------------------------------------------------- layout allocator (D)
\* fn align; offset % align panics (remainder by zero) when align is 0.
align_panics(offset, a) == a = 0

\* Mutants of align: no rounding, and rounding down.
align_NoRounding(offset, a) == offset

align_RoundDown(offset, a) == offset - (offset % a)

align(offset, a) ==
  LET r == offset % a
  IN IF r = 0 THEN offset ELSE offset - r + a

OutputSection(address, input_sec) == [address |-> address, input_section |-> input_sec]

\* One of the three loops of Input::allocate, over secs from position i on;
\* acc carries offset, the bucket's output vector and section_offsets.
RECURSIVE AllocateLoop(_, _, _)
AllocateLoop(secs, i, acc) ==
  IF i > Len(secs) \/ acc.panic # "none" THEN acc
  ELSE LET sec == secs[i]
       IN IF align_panics(acc.offset, sec.section.sh_addralign)
          THEN [acc EXCEPT !.panic = "align_zero"]
          ELSE LET offset == align(acc.offset, sec.section.sh_addralign)
               IN AllocateLoop(secs, i + 1,
                    [offset |-> offset + sec.section.sh_size,
                     out |-> Append(acc.out, OutputSection(offset, sec)),
                     section_offsets |->
                        MapInsert(acc.section_offsets, <<sec.file_idx, sec.shdr_idx>>, offset),
                     panic |-> "none"])

\* The size of the reserved header block: header_size + ProgramHeader::size * 3.
HeaderBlock == ELF_HEADER_SIZE + PROGRAM_HEADER_SIZE * num_prog_headers

\* Input::allocate
Allocated(code, data, ro_data) ==
  LET a0 == [offset |-> align(HeaderBlock, PAGE_SIZE), out |-> <<>>,
             section_offsets |-> EmptyMap, panic |-> "none"]
      a1 == AllocateLoop(code, 1, a0)
      b0 == IF a1.panic # "none" THEN a1
            ELSE [a1 EXCEPT !.offset = align(a1.offset, PAGE_SIZE), !.out = <<>>]
      b1 == AllocateLoop(data, 1, b0)
      c0 == IF b1.panic # "none" THEN b1
            ELSE [b1 EXCEPT !.offset = align(b1.offset, PAGE_SIZE), !.out = <<>>]
      c1 == AllocateLoop(ro_data, 1, c0)
  IN [code_sections |-> a1.out, data_sections |-> b1.out, ro_data_sections |-> c1.out,
      section_offsets |-> c1.section_offsets, total_size |-> c1.offset,
      panic |-> c1.panic]

\* run: input.allocate(ctx), then output_vec.resize(output.total_size, 0).
\* The Input is moved into the Output; its buckets keep their value here.
Allocate ==
  /\ pc = "ingest"
  /\ LET o == Allocated(code_sections, data_sections, ro_data_sections)
     IN IF o.panic # "none"
        THEN /\ pc' = "failed"
             /\ failure' = o.panic
             /\ UNCHANGED <<output, output_vec>>
        ELSE /\ pc' = "allocated"
             /\ failure' = "none"
             /\ output' = [code_sections |-> o.code_sections,
                           data_sections |-> o.data_sections,
                           ro_data_sections |-> o.ro_data_sections,
                           section_offsets |-> o.section_offsets,
                           total_size |-> o.total_size]
             /\ output_vec' = [EmptyImage EXCEPT !.len = o.total_size]
  /\ UNCHANGED <<corpus, file_buffers, code_sections, data_sections, ro_data_sections,
                 reloc_sections, symtab, exe_file>>

\* ------------------------------------------------------- image writer (E)
\* fn segment_info
segment_info(sections) ==
  IF Len(sections) = 0 THEN [size |-> 0, offset |-> 0]
  ELSE LET first == sections[1]
           last == sections[Len(sections)]
       IN [size |-> last.address + last.input_section.section.sh_size - first.address,
           offset |-> first.address]

\* fn prog_header
prog_header(info) ==
  [p_type |-> PT_LOAD, p_flags |-> 0, p_offset |-> info.offset, p_vaddr |-> info.offset,
   p_paddr |-> info.offset, p_filesz |-> info.size, p_memsz |-> info.size,
   p_align |-> PAGE_SIZE]

\* scroll's pwrite_with on a buffer of len bytes: an offset at or past the
\* end, or a value longer than what is left, is an error (the `?` returns).
PwriteOk(len, offset, size) == offset < len /\ size <= len - offset

\* The bytes of img after seq is copied to offset at.
WriteBytes(bytes, at, seq) ==
  [k \in DOMAIN bytes \cup (at .. at + Len(seq) - 1) |->
     IF k >= at /\ k < at + Len(seq) THEN seq[k - at + 1] ELSE bytes[k]]

\* The byte of the image at offset k.
ByteAt(img, k) == IF k \in DOMAIN img.bytes THEN img.bytes[k] ELSE 0

\* The payload copy of Output::write over one bucket, from position i on.
RECURSIVE CopySections(_, _, _, _)
CopySections(files, secs, i, acc) ==
  IF i > Len(secs) \/ acc.err # "none" THEN acc
  ELSE LET sec == secs[i]
           input_sec == sec.input_section.section
           offset == input_sec.sh_offset
           size == input_sec.sh_size
           file_buf == files[sec.input_section.file_idx + 1].buf
       IN IF offset + size > Len(file_buf) THEN [acc EXCEPT !.err = "slice"]
          ELSE IF ~PwriteOk(acc.len, sec.address, size) THEN [acc EXCEPT !.err = "write_error"]
          ELSE CopySections(files, secs, i + 1,
                 [acc EXCEPT !.bytes = WriteBytes(@, sec.address,
                                          SubSeq(file_buf, offset + 1, offset + size))])

\* The entry point of Output::write; "no_start" and "start_section" are the
\* panics of its unwraps.
EntryPanic(st, o) ==
  IF "_start" \notin DOMAIN st.globals THEN "no_start"
  ELSE LET e == st.globals["_start"]
       IN IF ~SymbolTableHas(st, e[1], e[2]) THEN "bad_symbol"
          ELSE IF <<e[1], SymbolTableGet(st, e[1], e[2]).st_shndx>> \notin DOMAIN o.section_offsets
               THEN "start_section"
          ELSE "none"

\* Mutant of Entry: st_value is not added to the section's offset.
Entry_SectionStart(st, o) ==
  LET e == st.globals["_start"]
      entry_sym == SymbolTableGet(st, e[1], e[2])
  IN o.section_offsets[<<e[1], entry_sym.st_shndx>>]

Entry(st, o) ==
  LET e == st.globals["_start"]
      entry_sym == SymbolTableGet(st, e[1], e[2])
  IN o.section_offsets[<<e[1], entry_sym.st_shndx>>] + entry_sym.st_value

\* The ELF header and the three program headers Output::write emits.
ElfHeader(entry) ==
  [e_type |-> ET_EXEC, e_machine |-> EM_X86_64, e_entry |-> entry,
   e_phoff |-> ELF_HEADER_SIZE, e_phnum |-> 3]

ProgramHeaders(o) ==
  <<[prog_header(segment_info(o.code_sections)) EXCEPT !.p_flags = BitOr(PF_R, PF_X)],
    [prog_header(segment_info(o.data_sections)) EXCEPT !.p_flags = BitOr(PF_R, PF_W)],
    [prog_header(segment_info(o.ro_data_sections)) EXCEPT !.p_flags = PF_R]>>

\* Output::write
Written(files, st, o, img) ==
  LET p == EntryPanic(st, o)
  IN IF p # "none" THEN [img |-> img, err |-> p]
     ELSE IF ~PwriteOk(img.len, 0, ELF_HEADER_SIZE) THEN [img |-> img, err |-> "write_error"]
     ELSE LET h == [img EXCEPT !.ehdr = ElfHeader(Entry(st, o)), !.phdrs = ProgramHeaders(o)]
              c0 == [len |-> img.len, bytes |-> img.bytes, err |-> "none"]
              c1 == CopySections(files, o.code_sections, 1, c0)
              c2 == CopySections(files, o.data_sections, 1, c1)
              c3 == CopySections(files, o.ro_data_sections, 1, c2)
          IN [img |-> [h EXCEPT !.bytes = c3.bytes], err |-> c3.err]

\* run: output.write(&mut output_vec, ctx)?
Write ==
  /\ pc = "allocated"
  /\ LET w == Written(file_buffers, symtab, output, output_vec)
     IN /\ output_vec' = w.img
        /\ failure' = w.err
        /\ pc' = IF w.err = "none" THEN "written" ELSE "failed"
  /\ UNCHANGED <<corpus, file_buffers, code_sections, data_sections, ro_data_sections,
                 reloc_sections, symtab, output, exe_file>>

\* ------------------------------------------------------------ relocator (F)
\* i32::try_from(s + a - p) succeeds, for d = s - p; evaluated so that no
\* intermediate leaves the 32-bit range.
FitsI32(d, a) ==
  IF a >= 0 THEN d <= I32_MAX - a /\ d + a >= I32_MIN
  ELSE d >= I32_MIN - a /\ d + a <= I32_MAX

\* Mutant of I32LE: most significant byte first.
I32LE_BigEndian(r) ==
  <<(r \div 16777216) % 256, (r \div 65536) % 256, (r \div 256) % 256, r % 256>>

\* The four bytes pwrite_with(r: i32, p, ctx.le) stores: two's complement,
\* least significant byte first.
I32LE(r) ==
  <<r % 256, (r \div 256) % 256, (r \div 65536) % 256, (r \div 16777216) % 256>>

\* One record of Output::relocate: the panic or error it ends in, or the
\* patch location p and the value r it stores there.
RelocOutcome(st, o, len, reloc_sec, reloc, sec_offset) ==
  LET file == reloc_sec.applies_to_file
  IN IF reloc.r_type = R_X86_64_PC32 THEN
       IF ~SymbolTableHas(st, file, reloc.r_sym) THEN [err |-> "bad_symbol"]
       ELSE LET sym == SymbolTableGet(st, file, reloc.r_sym)
            IN IF <<file, sym.st_shndx>> \notin DOMAIN o.section_offsets
               THEN [err |-> "symbol_section"]
               ELSE LET s == o.section_offsets[<<file, sym.st_shndx>>] + sym.st_value
                        p == sec_offset + reloc.r_offset
                    IN IF ~FitsI32(s - p, reloc.r_addend) THEN [err |-> "overflow"]
                       ELSE IF ~PwriteOk(len, p, 4) THEN [err |-> "reloc_error"]
                       ELSE [err |-> "none", p |-> p, r |-> s + reloc.r_addend - p]
     ELSE IF reloc.r_type = R_X86_64_PLT32 THEN
       IF ~SymbolTableHas(st, file, reloc.r_sym) THEN [err |-> "bad_symbol"]
       ELSE LET sym_name == SymbolTableGet(st, file, reloc.r_sym).st_name
            IN IF sym_name \notin DOMAIN st.globals THEN [err |-> "undefined_symbol"]
               ELSE LET g == st.globals[sym_name]
                        sym == SymbolTableGet(st, g[1], g[2])
                    IN IF <<g[1], sym.st_shndx>> \notin DOMAIN o.section_offsets
                       THEN [err |-> "symbol_section"]
                       ELSE LET l == o.section_offsets[<<g[1], sym.st_shndx>>] + sym.st_value
                                p == sec_offset + reloc.r_offset
                            IN IF ~FitsI32(l - p, reloc.r_addend) THEN [err |-> "overflow"]
                               ELSE IF ~PwriteOk(len, p, 4) THEN [err |-> "reloc_error"]
                               ELSE [err |-> "none", p |-> p, r |-> l + reloc.r_addend - p]
     ELSE [err |-> "unsupported_reloc"]

\* The inner loop of Output::relocate over the records of one section.
RECURSIVE RelocateRecords(_, _, _, _, _, _)
RelocateRecords(st, o, reloc_sec, sec_offset, j, acc) ==
  IF j > Len(reloc_sec.relocations) \/ acc.err # "none" THEN acc
  ELSE LET x == RelocOutcome(st, o, acc.len, reloc_sec, reloc_sec.relocations[j], sec_offset)
       IN IF x.err # "none" THEN [acc EXCEPT !.err = x.err]
          ELSE RelocateRecords(st, o, reloc_sec, sec_offset, j + 1,
                 [acc EXCEPT !.bytes = WriteBytes(@, x.p, I32LE(x.r))])

\* The outer loop of Output::relocate over reloc_sections.
RECURSIVE RelocateSections(_, _, _, _, _)
RelocateSections(st, o, rsecs, i, acc) ==
  IF i > Len(rsecs) \/ acc.err # "none" THEN acc
  ELSE LET reloc_sec == rsecs[i]
           key == <<reloc_sec.applies_to_file, reloc_sec.applies_to_sec>>
       IN IF key \notin DOMAIN o.section_offsets THEN [acc EXCEPT !.err = "reloc_section"]
          ELSE RelocateSections(st, o, rsecs, i + 1,
                 RelocateRecords(st, o, reloc_sec, o.section_offsets[key], 1, acc))

\* Output::relocate
Relocated(st, o, rsecs, img) ==
  LET r == RelocateSections(st, o, rsecs, 1,
             [len |-> img.len, bytes |-> img.bytes, err |-> "none"])
  IN [img |-> [img EXCEPT !.bytes = r.bytes], err |-> r.err]

\* run: output.relocate(&mut output_vec, ctx)?
Relocate ==
  /\ pc = "written"
  /\ LET r == Relocated(symtab, output, reloc_sections, output_vec)
     IN /\ output_vec' = r.img
        /\ failure' = r.err
        /\ pc' = IF r.err = "none" THEN "relocated" ELSE "failed"
  /\ UNCHANGED <<corpus, file_buffers, code_sections, data_sections, ro_data_sections,
                 reloc_sections, symtab, output, exe_file>>

\* -------------------------------------------------------- output stager (G)
\* run: File::create, write_all, flush, set_permissions(0o755).
ExeMode == 493

Stage ==
  /\ pc = "relocated"
  /\ exe_file' = [created |-> TRUE, contents |-> output_vec, mode |-> ExeMode]
  /\ pc' = "done"
  /\ UNCHANGED <<corpus, failure, file_buffers, code_sections, data_sections,
                 ro_data_sections, reloc_sections, symtab, output, output_vec>>

Next ==
  \/ \E elf \in CorpusFiles(corpus) : ProcessObjectFile(elf)
  \/ Allocate
  \/ Write
  \/ Relocate
  \/ Stage

Spec == Init /\ [][Next]_vars

\* ======================================================== properties
\* The stages `run` has passed.
AllocateDone == pc \in {"allocated", "written", "relocated", "done"}
Succeeded == pc = "done"

\* The symbols of the objects read so far, as (file_idx, sym_idx).
AllSymbols ==
  UNION {{<<f, i>> : i \in 0 .. Len(file_buffers[f + 1].syms) - 1} :
           f \in 0 .. Len(file_buffers) - 1}

SymbolAt(d) == file_buffers[d[1] + 1].syms[d[2] + 1]

\* The definitions of the global name n among the objects read so far.
GlobalDefs(n) ==
  {d \in AllSymbols :
     /\ SymbolAt(d).st_name = n
     /\ SymbolAt(d).st_info \div 16 = STB_GLOBAL
     /\ SymbolAt(d).st_shndx # SHN_UNDEF}

\* d precedes e in input order (file, then symbol index).
Before(d, e) == d[1] < e[1] \/ (d[1] = e[1] /\ d[2] < e[2])

GlobalNames == {SymbolAt(d).st_name : d \in AllSymbols}

\* C1: when two defined GLOBAL symbols carry the same name (in the same or
\* in different inputs), the second insertion is fatal: the pipeline has
\* aborted, and the earlier (file_idx, sym_idx) entry of globals is not
\* replaced by the later one.
C1_DuplicateDefinitionIsFatal ==
  \A n \in GlobalNames :
    Cardinality(GlobalDefs(n)) >= 2 =>
      /\ pc = "failed"
      /\ n \in DOMAIN symtab.globals
      /\ \A d \in GlobalDefs(n) : ~Before(d, symtab.globals[n])

\* ---- C2
RoundUpToPage(x) == ((x + PAGE_SIZE - 1) \div PAGE_SIZE) * PAGE_SIZE

EndOf(S) == S.address + S.input_section.section.sh_size

LastEnd(sections) == EndOf(sections[Len(sections)])

\* C2 as stated: total_size is the end of the last section of the last
\* non-empty bucket, or the size of the reserved header block when all
\* three buckets are empty.
C2_TotalSizeIsLastEnd ==
  AllocateDone =>
    output.total_size =
      IF output.ro_data_sections # <<>> THEN LastEnd(output.ro_data_sections)
      ELSE IF output.data_sections # <<>> THEN LastEnd(output.data_sections)
      ELSE IF output.code_sections # <<>> THEN LastEnd(output.code_sections)
      ELSE ELF_HEADER_SIZE + 3 * PROGRAM_HEADER_SIZE

\* C2 (amended): total_size is the end of the last ro-data section when the
\* ro-data bucket is non-empty; otherwise it is the end of the last section
\* of the last non-empty bucket rounded up to a multiple of PAGE_SIZE, and
\* PAGE_SIZE (the reserved header block rounded up) when all are empty.
C2_TotalSizeIsPageRoundedEnd ==
  AllocateDone =>
    output.total_size =
      IF output.ro_data_sections # <<>> THEN LastEnd(output.ro_data_sections)
      ELSE IF output.data_sections # <<>> THEN RoundUpToPage(LastEnd(output.data_sections))
      ELSE IF output.code_sections # <<>> THEN RoundUpToPage(LastEnd(output.code_sections))
      ELSE RoundUpToPage(ELF_HEADER_SIZE + 3 * PROGRAM_HEADER_SIZE)

C2_Witness ==
  /\ AllocateDone
  /\ output.ro_data_sections = <<>>
  /\ output.data_sections = <<>>
  /\ output.code_sections # <<>>
  /\ output.total_size > LastEnd(output.code_sections)

\* ---- C3
\* The header and the code segment's program header of the written file.
WrittenEntry == exe_file.contents.ehdr.e_entry
CodeHeader == exe_file.contents.phdrs[1]

EntryInCodeSegment ==
  /\ CodeHeader.p_offset <= WrittenEntry
  /\ WrittenEntry < CodeHeader.p_offset + CodeHeader.p_filesz

\* C3 as stated: on every successful run e_entry lies in the code segment's
\* [p_offset, p_offset + p_filesz), whatever section defines _start and
\* whatever its st_value.
C3_EntryInCodeSegment == Succeeded => EntryInCodeSegment

\* The symbol globals resolves _start to, and the output section holding it.
StartSym == SymbolAt(symtab.globals["_start"])
StartKey == <<symtab.globals["_start"][1], StartSym.st_shndx>>

IsSectionOf(S, key) ==
  S.input_section.file_idx = key[1] /\ S.input_section.shdr_idx = key[2]

\* C3 (amended): on every successful run, e_entry lies in the code
\* segment's [p_offset, p_offset + p_filesz) exactly when _start is defined
\* in a section of the code bucket and its st_value is less than the
\* number of bytes from that section's address to the end of the last code
\* section.
C3_EntryInCodeSegmentIffStartInCode ==
  Succeeded =>
    (EntryInCodeSegment <=>
       \E S \in Range(output.code_sections) :
          /\ IsSectionOf(S, StartKey)
          /\ StartSym.st_value < LastEnd(output.code_sections) - S.address)

C3_Witness ==
  /\ Succeeded
  /\ EntryInCodeSegment
  /\ StartSym.st_value > 0
  /\ Len(output.code_sections) >= 2
  /\ IsSectionOf(output.code_sections[2], StartKey)

\* ---- C4
IsMultipleOf(x, a) == IF a = 0 THEN x = 0 ELSE x % a = 0

OutputSections ==
  Range(output.code_sections) \cup Range(output.data_sections)
     \cup Range(output.ro_data_sections)

\* C4: the address of every OutputSection that allocate produces, in any
\* of the three buckets, is a multiple of its section's sh_addralign (an
\* sh_addralign of 0 makes allocate panic before it produces the section).
C4_AddressAligned ==
  \A S \in OutputSections : IsMultipleOf(S.address, S.input_section.section.sh_addralign)

\* A section that the rounding to its own alignment moved.
C4_Witness ==
  /\ AllocateDone
  /\ \E i \in 2 .. Len(output.data_sections) :
       /\ output.data_sections[i].input_section.section.sh_addralign = 16
       /\ output.data_sections[i].address > EndOf(output.data_sections[i - 1])

\* ---- C5
Buckets == <<output.code_sections, output.data_sections, output.ro_data_sections>>

\* C5 as stated: the first OutputSection of every non-empty bucket starts
\* at a multiple of PAGE_SIZE, for every sh_addralign of that section.
C5_FirstSectionPageAligned ==
  \A b \in 1 .. 3 : Buckets[b] # <<>> => Buckets[b][1].address % PAGE_SIZE = 0

\* C5 (amended): the first OutputSection of every non-empty bucket starts
\* at a multiple of PAGE_SIZE when its sh_addralign divides PAGE_SIZE or is
\* a multiple of PAGE_SIZE (every power of two does one or the other).
C5_FirstSectionPageAlignedForPow2 ==
  \A b \in 1 .. 3 :
    Buckets[b] # <<>> =>
      LET a == Buckets[b][1].input_section.section.sh_addralign
      IN (a # 0 /\ (PAGE_SIZE % a = 0 \/ a % PAGE_SIZE = 0)) =>
           Buckets[b][1].address % PAGE_SIZE = 0

\* The first rw-data section starts on a later page than the one the code
\* ends in, because its own alignment is two pages.
C5_Witness ==
  /\ AllocateDone
  /\ output.code_sections # <<>>
  /\ output.data_sections # <<>>
  /\ output.data_sections[1].input_section.section.sh_addralign = 2 * PAGE_SIZE
  /\ output.data_sections[1].address > RoundUpToPage(LastEnd(output.code_sections))

\* ---- C6
\* The three PT_LOAD headers of the allocated buckets.
Headers == ProgramHeaders(output)

RangesDisjoint(h, g) ==
  \/ h.p_offset + h.p_filesz <= g.p_offset
  \/ g.p_offset + g.p_filesz <= h.p_offset
  \/ h.p_filesz = 0
  \/ g.p_filesz = 0

AllSizeZero(sections) == \A S \in Range(sections) : S.input_section.section.sh_size = 0

HeadersDisjoint ==
  /\ \A i, j \in 1 .. 3 : i # j => RangesDisjoint(Headers[i], Headers[j])
  /\ \A i \in 1 .. 3 :
       Headers[i].p_filesz > 0 =>
         Headers[i].p_offset >= ELF_HEADER_SIZE + 3 * PROGRAM_HEADER_SIZE

\* C6 as stated: the three ranges [p_offset, p_offset + p_filesz) are
\* pairwise disjoint, the header of an empty bucket or of a bucket whose
\* sections all have size 0 is zero-sized, and no non-empty range overlaps
\* the reserved header block.
C6_HeadersDisjointZeroSized ==
  /\ HeadersDisjoint
  /\ \A i \in 1 .. 3 : AllSizeZero(Buckets[i]) => Headers[i].p_filesz = 0

\* C6 (amended): the three ranges are pairwise disjoint, the header of an
\* empty bucket is zero-sized, the header of a bucket whose sections all
\* have size 0 spans exactly the alignment padding between its first and
\* its last section, and no non-empty range overlaps the reserved header
\* block.
C6_HeadersDisjoint ==
  /\ HeadersDisjoint
  /\ \A i \in 1 .. 3 :
       /\ Buckets[i] = <<>> => Headers[i].p_filesz = 0 /\ Headers[i].p_offset = 0
       /\ (Buckets[i] # <<>> /\ AllSizeZero(Buckets[i])) =>
            Headers[i].p_filesz =
               Buckets[i][Len(Buckets[i])].address - Buckets[i][1].address

C6_Witness ==
  /\ AllocateDone
  /\ \A i \in 1 .. 3 : Headers[i].p_filesz > 0
  /\ \E i \in 1 .. 3 : Len(Buckets[i]) >= 2

\* ---- C10
InputBuckets == <<code_sections, data_sections, ro_data_sections>>

\* The sections of all three buckets in image order.
Image == output.code_sections \o output.data_sections \o output.ro_data_sections

\* C10: each output bucket lists the sections of the aggregator's bucket in
\* the same order, which is input order and then section-header order, and
\* along code, rw-data, ro-data every section starts at or after the end of
\* its predecessor.
C10_OrderPreservedAndMonotonic ==
  AllocateDone =>
    /\ \A b \in 1 .. 3 :
         /\ Len(Buckets[b]) = Len(InputBuckets[b])
         /\ \A i \in 1 .. Len(Buckets[b]) : Buckets[b][i].input_section = InputBuckets[b][i]
         /\ \A i \in 1 .. Len(Buckets[b]) - 1 :
              LET x == Buckets[b][i].input_section
                  y == Buckets[b][i + 1].input_section
              IN x.file_idx < y.file_idx
                   \/ (x.file_idx = y.file_idx /\ x.shdr_idx < y.shdr_idx)
    /\ \A i \in 1 .. Len(Image) - 1 : EndOf(Image[i]) <= Image[i + 1].address

\* Two code sections of one object, a third of another, and rw-data.
C10_Witness ==
  /\ AllocateDone
  /\ Len(output.code_sections) >= 3
  /\ output.code_sections[1].input_section.file_idx = output.code_sections[2].input_section.file_idx
  /\ output.code_sections[2].input_section.file_idx # output.code_sections[3].input_section.file_idx
  /\ output.data_sections # <<>>

\* ---- C7
Succeeding == pc \in {"relocated", "done"}

\* The relocation records, as (relocation section, record) in the order
\* relocate processes them.
RelocRecords ==
  UNION {{<<i, j>> : j \in 1 .. Len(reloc_sections[i].relocations)} :
           i \in 1 .. Len(reloc_sections)}

RecordOf(x) == reloc_sections[x[1]].relocations[x[2]]

\* P of record x.
PatchAt(x) ==
  output.section_offsets[<<reloc_sections[x[1]].applies_to_file,
                           reloc_sections[x[1]].applies_to_sec>>] + RecordOf(x).r_offset

AddressOf(d) == output.section_offsets[<<d[1], SymbolAt(d).st_shndx>>] + SymbolAt(d).st_value

\* The definition of the global name n that comes last in input order.
LastGlobalDef(n) == {d \in GlobalDefs(n) : \A e \in GlobalDefs(n) : ~Before(d, e)}

\* The symbol record x resolves to: symbol r_sym of the same file for PC32,
\* the defined global of the same name (the last, were there several) for
\* PLT32.
TargetsOf(x) ==
  LET own == <<reloc_sections[x[1]].applies_to_file, RecordOf(x).r_sym>>
  IN IF RecordOf(x).r_type = R_X86_64_PC32 THEN {own}
     ELSE IF RecordOf(x).r_type = R_X86_64_PLT32 THEN LastGlobalDef(SymbolAt(own).st_name)
     ELSE {}

\* The signed 32-bit little-endian value at offset p of the image.
ReadI32LE(img, p) ==
  LET b3 == ByteAt(img, p + 3)
  IN ByteAt(img, p) + 256 * ByteAt(img, p + 1) + 65536 * ByteAt(img, p + 2)
       + 16777216 * (IF b3 >= 128 THEN b3 - 256 ELSE b3)

\* s + a - p is a signed 32-bit value and the image holds it at p.
HoldsDisplacement(img, s, a, p) ==
  /\ (a > 0 => s - p <= I32_MAX - a)
  /\ (a < 0 => s - p >= I32_MIN - a)
  /\ ReadI32LE(img, p) = s + a - p

Patched(x) ==
  \E d \in TargetsOf(x) :
     HoldsDisplacement(output_vec, AddressOf(d), RecordOf(x).r_addend, PatchAt(x))

\* A record processed after x patches some of the four bytes x patched.
OverlappedLater(x) ==
  \E y \in RelocRecords :
     /\ x[1] < y[1] \/ (x[1] = y[1] /\ x[2] < y[2])
     /\ PatchAt(y) - PatchAt(x) < 4
     /\ PatchAt(x) - PatchAt(y) < 4

\* C7 as stated: after write and relocate, the signed 32-bit value at P of
\* every relocation record is S + A - P (and fits 32 bits).
C7_EveryPatchHolds == Succeeding => \A x \in RelocRecords : Patched(x)

\* C7 (amended): after write and relocate, the signed 32-bit value at P is
\* S + A - P, and fits 32 bits, for every relocation record whose four
\* patched bytes no record processed later overlaps.
C7_EveryLastPatchHolds ==
  Succeeding => \A x \in RelocRecords : OverlappedLater(x) \/ Patched(x)

\* The four bytes of the input payload at the place record x patches.
InputWord(x) ==
  LET rs == reloc_sections[x[1]]
      f == file_buffers[rs.applies_to_file + 1]
      at == f.section_headers[rs.applies_to_sec + 1].sh_offset + RecordOf(x).r_offset
  IN [len |-> 4, bytes |-> [k \in 0 .. 3 |-> f.buf[at + k + 1]]]

\* A PLT32 record resolved to another object, whose patch replaced payload.
C7_Witness ==
  /\ Succeeded
  /\ \E x \in RelocRecords :
       /\ RecordOf(x).r_type = R_X86_64_PLT32
       /\ \A d \in TargetsOf(x) : d[1] # reloc_sections[x[1]].applies_to_file
       /\ Patched(x)
       /\ ReadI32LE(output_vec, PatchAt(x)) # ReadI32LE(InputWord(x), 0)
       /\ ReadI32LE(InputWord(x), 0) # 0

\* ---- C8
NoStartDefined == GlobalDefs("_start") = {}

\* C8: if no input defines a global _start, the output file is never
\* created and the run never gets past the image writer; once the image
\* buffer exists the run fails at the lookup of _start, before a byte of
\* the image is written.
C8_MissingStartFailsBeforeStager ==
  NoStartDefined =>
    /\ ~exe_file.created
    /\ pc \notin {"written", "relocated", "done"}
    /\ (pc = "failed" /\ output_vec.len > 0) =>
          failure = "no_start" /\ output_vec = [EmptyImage EXCEPT !.len = output.total_size]

\* A run over an object whose only _start is a local symbol.
C8_Witness ==
  /\ pc = "failed"
  /\ failure = "no_start"
  /\ NoStartDefined
  /\ \E d \in AllSymbols : SymbolAt(d).st_name = "_start"

\* ---- C9
HasFlag(fl, b) == (fl \div b) % 2 = 1

WithoutMergeStrings(fl) ==
  fl - (IF HasFlag(fl, SHF_MERGE) THEN SHF_MERGE ELSE 0)
     - (IF HasFlag(fl, SHF_STRINGS) THEN SHF_STRINGS ELSE 0)

\* The destination the classification table gives a section header.
Destination(sec) ==
  IF sec.sh_type = SHT_PROGBITS THEN
    CASE sec.sh_flags = SHF_ALLOC + SHF_EXECINSTR -> "code"
      [] sec.sh_flags = SHF_ALLOC + SHF_WRITE -> "data"
      [] WithoutMergeStrings(sec.sh_flags) = SHF_ALLOC -> "ro_data"
      [] OTHER -> IF HasFlag(sec.sh_flags, SHF_ALLOC) THEN "unknown_flags" ELSE "none"
  ELSE IF sec.sh_type \in {SHT_NULL, SHT_NOBITS, SHT_RELA, SHT_SYMTAB, SHT_STRTAB} THEN "none"
  ELSE "unknown_type"

Fatal == {"unknown_flags", "unknown_type"}

\* The number of entries of bucket for section j of file f.
Entries(bucket, f, j) ==
  Cardinality({i \in DOMAIN bucket : bucket[i].file_idx = f /\ bucket[i].shdr_idx = j})

\* The indices of the fatal sections of file f.
FatalSections(f) ==
  {j \in 0 .. Len(file_buffers[f + 1].section_headers) - 1 :
     Destination(file_buffers[f + 1].section_headers[j + 1]) \in Fatal}

IsMin(j, S) == j \in S /\ \A k \in S : j <= k

\* C9: every section header read is in the bucket the table names, once,
\* and in no other; a section the table calls fatal aborts the pipeline
\* with that diagnostic, and nothing else does.
C9_Classification ==
  /\ \A f \in 0 .. Len(file_buffers) - 1 :
       LET shdrs == file_buffers[f + 1].section_headers
       IN /\ \A j \in 0 .. Len(shdrs) - 1 :
               LET dest == Destination(shdrs[j + 1])
                   read == \A k \in FatalSections(f) : j < k
               IN /\ Entries(code_sections, f, j) = IF read /\ dest = "code" THEN 1 ELSE 0
                  /\ Entries(data_sections, f, j) = IF read /\ dest = "data" THEN 1 ELSE 0
                  /\ Entries(ro_data_sections, f, j) = IF read /\ dest = "ro_data" THEN 1 ELSE 0
          /\ \A j \in 0 .. Len(shdrs) - 1 :
               IsMin(j, FatalSections(f)) =>
                 /\ f = Len(file_buffers) - 1
                 /\ pc = "failed"
                 /\ failure = Destination(shdrs[j + 1])
  /\ failure \in Fatal => FatalSections(Len(file_buffers) - 1) # {}

\* A read-only section with MERGE and STRINGS set is in the ro-data bucket
\* and a later object was rejected for its flags.
C9_Witness ==
  /\ failure = "unknown_flags"
  /\ \E i \in DOMAIN ro_data_sections :
       /\ HasFlag(ro_data_sections[i].section.sh_flags, SHF_MERGE)
       /\ HasFlag(ro_data_sections[i].section.sh_flags, SHF_STRINGS)

====
